---- MODULE Spec2Model ----
(***************************************************************************)
(* A model of the FastSpeech2 training entry point (train.py: main and     *)
(* evaluate), of the logging adapter (utils/logging.py: log) and of the    *)
(* model/checkpoint factory (utils/model.py: get_model).                   *)
(*                                                                         *)
(* Python values are modelled as follows.  An Optional value is a sequence *)
(* of length at most one: None is << >> and a present value v is << v >>.  *)
(* A dict is a function on its key set.  A float is an integer, and a      *)
(* quotient is the pair [num, den].  A file name is the sequence of its    *)
(* decimal digits (all checkpoint names end ".pth.tar").                   *)
(***************************************************************************)
EXTENDS Integers, Sequences, FiniteSets, TLC

VARIABLES
    config,      \* the YAML run configuration (train.step.*, batch size)
    argv,        \* restore_step and num_gpus, as handed to main
    datasets,    \* len(Dataset("train.txt")), len(Dataset("val.txt"))
    files,       \* ckpt_path: file name -> checkpoint dict
    pc,          \* per rank: where that process is in main
    step,        \* per rank: main's local step
    epoch,       \* per rank: main's local epoch
    fs2_model,   \* per rank: [state, training] of the acoustic model
    optimizer,   \* per rank: the wrapped optimizer's state (Optional)
    pos,         \* per rank: sub-batches consumed in the current epoch
    loss_dict,   \* per rank: the step's Loss output, bin_loss and loss_dict
    ev,          \* evaluate's locals (primary process only)
    writes,      \* every [rank, path] a process created or wrote
    emissions,   \* every call made on a SummaryWriter
    executed,    \* per rank: the step numbers trained, in order
    passes,      \* every forward pass and save: [phase, rank, step, epoch, training]
    synth_calls, \* every synth_one_sample call evaluate made
    ckpt_reads,  \* per rank: number of torch.load calls made by get_model
    logCall,     \* log harness: the arguments of the call
    logOut,      \* log harness: calls the SummaryWriter received
    gmCall,      \* get_model harness: the arguments of the call
    gmOut        \* get_model harness: the outcome of the call

mainVars == << config, argv, datasets, files, pc, step, epoch, fs2_model,
               optimizer, pos, loss_dict, ev, writes, emissions, executed,
               passes, synth_calls, ckpt_reads >>
logVars == << logCall, logOut >>
gmVars == << gmCall, gmOut >>
vars == << mainVars, logVars, gmVars >>

None == << >>
Some(v) == << v >>

(***************************************************************************)
(* utils/logging.py                                                        *)
(***************************************************************************)

\* The six keys train.py puts in a loss mapping, and the two optional ones.
LossKeys ==
    { "total_loss", "mel_loss", "postnet_mel_loss", "duration_loss",
      "pitch_loss", "alignment_loss" }

sampling_rate_default == 48000

\* for key in keys: if loss_dict[key] is None: del loss_dict[key]
drop_absent_keeps_all(d) == [k \in DOMAIN d |-> IF d[k] # None THEN d[k][1] ELSE 0]
drop_absent(d) == [k \in {j \in DOMAIN d : d[j] # None} |-> d[k][1]]

abs(x) == IF x < 0 THEN -x ELSE x

RECURSIVE seq_max(_)
seq_max(s) ==
    IF Len(s) = 1 THEN s[1]
    ELSE LET m == seq_max(Tail(s)) IN IF s[1] > m THEN s[1] ELSE m

\* audio / max(abs(audio)): each sample over the peak
peak_normalize(audio) ==
    LET peak == seq_max([i \in 1..Len(audio) |-> abs(audio[i])])
    IN [i \in 1..Len(audio) |-> [num |-> audio[i], den |-> peak]]

log_scalars(logger, s, d) ==
    IF d # None
    THEN << [call |-> "add_scalars", logger |-> logger, main_tag |-> "Loss",
             payload |-> drop_absent(d[1]), step |-> s] >>
    ELSE << >>

log_figure(logger, s, fig, tag) ==
    IF fig # None
    THEN << [call |-> "add_figure", logger |-> logger, main_tag |-> tag,
             payload |-> fig[1], step |-> s] >>
    ELSE << >>

log_audio(logger, s, audio, sampling_rate, tag) ==
    IF audio # None
    THEN << [call |-> "add_audio", logger |-> logger, main_tag |-> tag,
             payload |-> peak_normalize(audio[1]), step |-> s,
             sample_rate |-> sampling_rate] >>
    ELSE << >>

\* log(logger, step, loss_dict, fig, audio, sampling_rate, tag): the calls the
\* SummaryWriter receives, in order.
log(logger, s, d, fig, audio, sampling_rate, tag) ==
    log_scalars(logger, s, d) \o log_figure(logger, s, fig, tag)
        \o log_audio(logger, s, audio, sampling_rate, tag)

(***************************************************************************)
(* utils/model.py                                                          *)
(***************************************************************************)

\* A freshly constructed nn.Module: untrained parameters, training mode on.
\* The vocoder generator carries a weight-norm reparameterization.
new_module(name) ==
    [name |-> name, state |-> 0, training |-> TRUE,
     weight_norm |-> (name = "generator_model")]

SubModels ==
    << "variance_model", "embedder_model", "decoder_model",
       "generator_model", "mpd_model", "msd_model" >>

\* The keys get_model reads from a checkpoint before the optimizer is built.
ckpt_keys == {SubModels[i] : i \in 1..Len(SubModels)} \cup {"epoch", "step"}

load_state_dict(m, sd) == [m EXCEPT !.state = sd]
train_mode(m) == [m EXCEPT !.training = TRUE]
eval_mode(m) == [m EXCEPT !.training = FALSE]
remove_weight_norm(m) == [m EXCEPT !.weight_norm = FALSE]

\* The tuple get_model returns when train is false (line 137): eight slots.
inference_return(ms, ep, st) ==
    << Some(ms[1]), Some(ms[2]), Some(ms[3]), None, None, None, ep, st >>

\* The tuple get_model returns when train is true (line 126): nine slots.
train_return(ms, opt, ep, st) ==
    << Some(ms[1]), Some(ms[2]), Some(ms[3]), Some(ms[4]), Some(ms[5]),
       Some(ms[6]), Some(opt), ep, st >>

\* get_model(checkpoint_path, config, device, speaker_num, train) of
\* utils/model.py: [status, ret].
get_model(checkpoint_path, vocoder_type, fsys, train) ==
    LET built == [i \in 1..Len(SubModels) |-> new_module(SubModels[i])]
        has_ckpt == checkpoint_path # None
        ckpt == fsys[checkpoint_path[1]]
        loaded == [i \in 1..Len(SubModels) |->
                      IF has_ckpt
                      THEN load_state_dict(built[i], ckpt[SubModels[i]])
                      ELSE built[i]]
        ep == IF has_ckpt THEN ckpt["epoch"] ELSE -1
        st == IF has_ckpt THEN ckpt["step"] ELSE 0
        opt == [state |-> IF has_ckpt THEN ckpt["optimizer"] ELSE 0,
                epoch |-> ep]
        inf == [i \in 1..Len(SubModels) |->
                   IF i <= 3 THEN eval_mode(loaded[i])
                   ELSE IF i = 4 THEN remove_weight_norm(eval_mode(loaded[i]))
                   ELSE loaded[i]]
    IN  IF vocoder_type \notin {"fregan", "hifigan"}
        THEN [status |-> "Unsupported vocoder", ret |-> << >>]
        ELSE IF has_ckpt /\ checkpoint_path[1] \notin DOMAIN fsys
        THEN [status |-> "FileNotFoundError", ret |-> << >>]
        ELSE IF has_ckpt /\ ~(ckpt_keys \subseteq DOMAIN ckpt)
        THEN [status |-> "KeyError", ret |-> << >>]
        ELSE IF train /\ has_ckpt /\ "optimizer" \notin DOMAIN ckpt
        THEN [status |-> "KeyError", ret |-> << >>]
        ELSE IF train
        THEN [status |-> "ok",
              ret |-> train_return([i \in 1..Len(SubModels) |->
                                       train_mode(loaded[i])], opt, ep, st)]
        ELSE [status |-> "ok", ret |-> inference_return(inf, ep, st)]

\* get_param_num is diagnostic only and changes no state; it is not modelled.

(***************************************************************************)
(* Bounds of the model and the inputs it draws                             *)
(***************************************************************************)

MaxTotalStep == 3      \* config.train.step.total_step ranges over 1..MaxTotalStep
MaxRestoreStep == 2    \* --restore_step ranges over 0..MaxRestoreStep
MaxTrainLen == 9       \* len(Dataset("train.txt")) ranges over 1..MaxTrainLen
MaxValLen == 3         \* len(Dataset("val.txt")) ranges over 1..MaxValLen
MaxBatchSize == 3      \* per-device batch size ranges over 1..MaxBatchSize
MaxBinLoss == 1        \* bin_loss ranges over 0..MaxBinLoss
MaxRuns == 2           \* processes started one after the other on one disk

DeviceCounts == {1, 2}                  \* torch.cuda.device_count()
Ranks == UNION {0 .. (n - 1) : n \in DeviceCounts}
StepPeriods == {1, 2}                   \* log_step, synth_step, val_step, save_step
StepCap == MaxRestoreStep + MaxTotalStep + 1
EpochCap == StepCap + 1

\* What FastSpeech2Loss may return: (total, mel, postnet_mel, duration, pitch,
\* alignment), total being the sum of the five components.
LossOutputs ==
    { [total_loss |-> 17 + a, mel_loss |-> 2, postnet_mel_loss |-> 3,
       duration_loss |-> 5, pitch_loss |-> 7, alignment_loss |-> a] :
         a \in {0, 1} }

(***************************************************************************)
(* Checkpoint files                                                        *)
(***************************************************************************)

RECURSIVE digits(_)
digits(n) == IF n < 10 THEN << n >> ELSE Append(digits(n \div 10), n % 10)

\* "{:08d}.pth.tar".format(step): the name torch.save writes (train.py 412)
format_08d(n) ==
    LET d == digits(n)
    IN IF Len(d) >= 8 THEN d ELSE [i \in 1..(8 - Len(d)) |-> 0] \o d

\* "{}.pth.tar".format(restore_step): the name the two-stage factory reads
format_plain(n) == digits(n)

\* What train.py's torch.save writes (lines 404-409).
saved_checkpoint(m, opt, ep) ==
    [model |-> m.state, optimizer |-> opt.state, epoch |-> ep - 1]

\* A checkpoint in the layout the two-stage factory restores from.
restore_layout(m_state, opt_state, ep) ==
    [variance_model |-> m_state.variance_model,
     embedder_model |-> m_state.embedder_model,
     decoder_model |-> m_state.decoder_model,
     optimizer |-> opt_state, epoch |-> ep]

\* The acoustic model after n optimizer updates from a fresh construction.
model_state(n) ==
    [variance_model |-> n, embedder_model |-> n, decoder_model |-> n]

restore_keys == {"variance_model", "embedder_model", "decoder_model", "epoch"}

\* The two-stage factory get_model(restore_step, config, device, speaker_num,
\* train) that train.py calls and unpacks as (fs2_model, optimizer, epoch).
get_model_two_stage(restore_step, fsys, train) ==
    LET restoring == restore_step # 0
        name == format_plain(restore_step)
        ckpt == fsys[name]
        fresh == [state |-> model_state(0), training |-> TRUE]
        m == IF restoring
             THEN [fresh EXCEPT !.state =
                      [k \in DOMAIN fresh.state |-> ckpt[k]]]
             ELSE fresh
        ep == IF restoring THEN ckpt["epoch"] ELSE -1
        opt == [state |-> IF restoring THEN ckpt["optimizer"] ELSE 0]
    IN  IF restoring /\ name \notin DOMAIN fsys
        THEN [status |-> "FileNotFoundError", reads |-> 1]
        ELSE IF restoring /\ ~(restore_keys \subseteq DOMAIN ckpt)
        THEN [status |-> "KeyError", reads |-> 1]
        ELSE IF restoring /\ train /\ "optimizer" \notin DOMAIN ckpt
        THEN [status |-> "KeyError", reads |-> 1]
        ELSE [status |-> "ok", reads |-> IF restoring THEN 1 ELSE 0,
              fs2_model |-> [m EXCEPT !.training = train],
              optimizer |-> IF train THEN Some(opt) ELSE None,
              epoch |-> ep]

(***************************************************************************)
(* train.py: main                                                          *)
(***************************************************************************)

Active == {r \in Ranks : r < argv.num_gpus}

CrashPcs == {"AssertionError", "FileNotFoundError", "KeyError"}
LoopPcs == {"epoch", "batch", "val", "evaluate", "save", "step_end", "done"}

\* lines 200-203
group_size(num_gpus) == IF num_gpus > 1 THEN 1 ELSE 4

\* line 204: assert batch_size * group_size < len(dataset)
size_guard_non_strict(batch_size, num_gpus, train_len) ==
    batch_size * group_size(num_gpus) <= train_len

size_guard(batch_size, num_gpus, train_len) ==
    batch_size * group_size(num_gpus) < train_len

\* len(loader) times the sub-batches of one loader item: DistributedSampler
\* hands each rank ceil(len/num_gpus) records, the loader drops the last
\* partial batch of batch_size * group_size, the collate step re-splits an
\* item into group_size sub-batches.
steps_per_epoch(batch_size, num_gpus, train_len) ==
    LET shard == IF num_gpus > 1
                 THEN (train_len + num_gpus - 1) \div num_gpus
                 ELSE train_len
        gs == group_size(num_gpus)
    IN (shard \div (batch_size * gs)) * gs

\* line 246
first_step_same_as_restore(restore_step) == restore_step
first_step(restore_step) == restore_step + 1

\* line 247
first_epoch(ep) == IF ep > 1 THEN ep ELSE 1

\* lines 319-322: bin_loss scaled by 2.0, added to align_loss and total_loss
scale_bin_unscaled(b) == b
scale_bin(b) == 2 * b

\* lines 305-331 and 97-122: the step's loss_dict from Loss's output and bin_loss
make_loss_dict(out, b) ==
    [out EXCEPT !.alignment_loss = @ + scale_bin(b),
                !.total_loss = @ + scale_bin(b)]

tag_of(fmt, s, suffix) == [fmt |-> fmt, step |-> s, suffix |-> suffix]

\* What the model keeps of a SummaryWriter call: all but the payload.
emission(c) ==
    [logger |-> c.logger, call |-> c.call, main_tag |-> c.main_tag,
     step |-> c.step]
emitted(calls) == {emission(calls[i]) : i \in 1..Len(calls)}

write_file(fsys, name, content) ==
    [n \in DOMAIN fsys \cup {name} |-> IF n = name THEN content ELSE fsys[n]]

\* evaluate's locals count, loss_mean_dict and the loader's position, with the
\* history of the pass: the sub-batch sizes n_i, the sums of l_i * n_i and
\* the latest sub-batch's losses.
ev_idle ==
    [count |-> 0, consumed |-> 0, loss_mean_dict |-> [k \in LossKeys |-> 0],
     sizes |-> << >>, weighted |-> [k \in LossKeys |-> 0], last |-> None,
     report |-> None]

\* lines 188-204: process group, dataset, group size, the size assertion
main_prepare(r) ==
    /\ pc[r] = "start"
    /\ pc' = [pc EXCEPT ![r] =
                 IF size_guard(config.batch_size, argv.num_gpus, datasets.train)
                 THEN "get_model" ELSE "AssertionError"]
    /\ UNCHANGED << config, argv, datasets, files, step, epoch, fs2_model,
                    optimizer, pos, loss_dict, ev, writes, emissions, executed,
                    passes, ckpt_reads, logVars, synth_calls, gmVars >>

\* line 223: fs2_model, optimizer, epoch = get_model(restore_step, ..., train=True)
main_get_model(r) ==
    /\ pc[r] = "get_model"
    /\ LET res == get_model_two_stage(argv.restore_step, files, TRUE)
       IN /\ ckpt_reads' = [ckpt_reads EXCEPT ![r] = @ + res.reads]
          /\ IF res.status = "ok"
             THEN /\ fs2_model' = [fs2_model EXCEPT ![r] = res.fs2_model]
                  /\ optimizer' = [optimizer EXCEPT ![r] = res.optimizer]
                  /\ epoch' = [epoch EXCEPT ![r] = res.epoch]
                  /\ pc' = [pc EXCEPT ![r] = "init_logger"]
             ELSE /\ pc' = [pc EXCEPT ![r] = res.status]
                  /\ UNCHANGED << fs2_model, optimizer, epoch >>
    /\ UNCHANGED << config, argv, datasets, files, step, pos, loss_dict, ev,
                    writes, emissions, executed, passes, logVars,
                    synth_calls, gmVars >>

\* The paths lines 236-243 create: every configured output path, the two log
\* directories and the two SummaryWriter sessions.
logger_paths ==
    { "ckpt_path", "log_path", "log_path/train", "log_path/val",
      "SummaryWriter(train)", "SummaryWriter(val)" }

\* lines 224-225: constructing DistributedDataParallel is a collective; a
\* rank gets past it once every rank has its model.
ddp_constructed ==
    \A q \in Active : pc[q] \in LoopPcs \cup {"init_logger"}

\* lines 235-258: output directories, logging sessions, step and epoch
main_init_logger(r) ==
    /\ pc[r] = "init_logger"
    /\ ddp_constructed
    /\ writes' = writes \cup {[rank |-> r, path |-> p] : p \in logger_paths}
    /\ step' = [step EXCEPT ![r] = first_step(argv.restore_step)]
    /\ epoch' = [epoch EXCEPT ![r] = first_epoch(epoch[r])]
    /\ pc' = [pc EXCEPT ![r] = "epoch"]
    /\ UNCHANGED << config, argv, datasets, files, fs2_model, optimizer, pos,
                    loss_dict, ev, emissions, executed, passes, ckpt_reads,
                    logVars, synth_calls, gmVars >>

\* lines 260-267 and 425: the top of `while True`; an empty loader makes the
\* epoch loop spin without training.
epoch_loop(r) ==
    /\ pc[r] = "epoch"
    /\ IF steps_per_epoch(config.batch_size, argv.num_gpus, datasets.train) = 0
       THEN /\ epoch[r] < EpochCap
            /\ epoch' = [epoch EXCEPT ![r] = @ + 1]
            /\ UNCHANGED << pc, pos >>
       ELSE /\ pc' = [pc EXCEPT ![r] = "batch"]
            /\ pos' = [pos EXCEPT ![r] = 0]
            /\ UNCHANGED epoch
    /\ UNCHANGED << config, argv, datasets, files, step, fs2_model, optimizer,
                    loss_dict, ev, writes, emissions, executed, passes,
                    ckpt_reads, logVars, synth_calls, gmVars >>

\* A rendered figure and a synthesized waveform, as synth_one_sample returns.
Fig == "fig"
Wav == << 1, -2 >>

as_optional(d) == [k \in DOMAIN d |-> Some(d[k])]

\* lines 341-359: every log_step steps, a line of log.txt and the scalars
log_step_calls(s, d) ==
    IF s % config.log_step = 0
    THEN log("train", Some(s), Some(as_optional(d)), None, None,
             sampling_rate_default, "")
    ELSE << >>

\* lines 361-390: every synth_step steps, a figure and two audio clips; none
\* of the three calls passes step
synth_step_calls(s) ==
    IF s % config.synth_step = 0
    THEN log("train", None, None, Some(Fig), None, sampling_rate_default,
             tag_of("Training/step_{}_{}", Some(s), ""))
         \o log("train", None, None, None, Some(Wav), config.sampling_rate,
                tag_of("Training/step_{}_{}", Some(s), "_reconstructed"))
         \o log("train", None, None, None, Some(Wav), config.sampling_rate,
                tag_of("Training/step_{}_{}", Some(s), "_synthesized"))
    ELSE << >>

\* The paths the reporting of lines 340-390 writes at step s.
report_paths(s) ==
    (IF s % config.log_step = 0
     THEN {"log_path/train/log.txt", "SummaryWriter(train)"} ELSE {})
    \cup (IF s % config.synth_step = 0 THEN {"SummaryWriter(train)"} ELSE {})

\* loss.backward, optimizer.step_and_update_lr: one update of every sub-model
update_weights(m) == [m EXCEPT !.state = [k \in DOMAIN @ |-> @[k] + 1]]

\* lines 392 and 403: where the primary process goes after the step's reports
after_report(r, s) ==
    IF r # 0 THEN "step_end"
    ELSE IF s % config.val_step = 0 THEN "val" ELSE "save"

\* DistributedDataParallel synchronizes gradients in backward (lines 225, 334):
\* a rank completes step s only once every rank has finished step s - 1.
gradients_synchronized(r) ==
    \A q \in Active : pc[q] \in LoopPcs /\ step[q] >= step[r]

\* lines 268-390: one sub-batch: forward, loss, backward, optimizer step and,
\* on rank 0, the periodic log and synthesis reports
train_step(r) ==
    /\ pc[r] = "batch"
    /\ step[r] <= StepCap
    /\ gradients_synchronized(r)
    /\ \E out \in LossOutputs, b \in 0..MaxBinLoss :
          LET d == make_loss_dict(out, b)
          IN /\ loss_dict' = [loss_dict EXCEPT ![r] =
                    Some([base |-> out, bin_loss |-> b, dict |-> d,
                          backward |-> d.total_loss])]
             /\ emissions' = IF r = 0
                   THEN emissions \cup emitted(log_step_calls(step[r], d))
                                  \cup emitted(synth_step_calls(step[r]))
                   ELSE emissions
    /\ passes' = passes \cup {[phase |-> "train", rank |-> r, step |-> step[r],
                               epoch |-> epoch[r], training |-> fs2_model[r].training]}
    /\ fs2_model' = [fs2_model EXCEPT ![r] = update_weights(@)]
    /\ optimizer' = [optimizer EXCEPT ![r] = Some([state |-> @[1].state + 1])]
    /\ executed' = [executed EXCEPT ![r] = Append(@, step[r])]
    /\ writes' = IF r = 0
                 THEN writes \cup {[rank |-> r, path |-> p] :
                                      p \in report_paths(step[r])}
                 ELSE writes
    /\ pc' = [pc EXCEPT ![r] = after_report(r, step[r])]
    /\ UNCHANGED << config, argv, datasets, files, step, epoch, pos, ev,
                    ckpt_reads, logVars, synth_calls, gmVars >>

\* lines 392-393 and 35-59: fs2_model.eval(), then evaluate's set-up
val_begin_mode(m) == eval_mode(m)

val_begin(r) ==
    /\ pc[r] = "val"
    /\ fs2_model' = [fs2_model EXCEPT ![r] = val_begin_mode(@)]
    /\ ev' = ev_idle
    /\ loss_dict' = [loss_dict EXCEPT ![r] = None]
    /\ pc' = [pc EXCEPT ![r] = "evaluate"]
    /\ UNCHANGED << config, argv, datasets, files, step, epoch, optimizer, pos,
                    writes, emissions, executed, passes, ckpt_reads, logVars,
                    synth_calls, gmVars >>

(***************************************************************************)
(* train.py: evaluate                                                      *)
(***************************************************************************)

\* lines 40-45, 60-61: the loader hands over batch_size records at a time and
\* keeps the last partial batch (drop_last=False); with sort=False the collate
\* step returns them as one sub-batch.
sub_batch_size(batch_size, remaining) ==
    IF remaining < batch_size THEN remaining ELSE batch_size

\* line 127: loss_mean_dict[key] += loss_dict[key].item() * len(batch[0])
accumulate_unweighted(acc, d, n) == [k \in DOMAIN acc |-> acc[k] + d[k]]
accumulate(acc, d, n) == [k \in DOMAIN acc |-> acc[k] + d[k] * n]

\* lines 165-168: loss_mean_dict[key] / len(dataset)
mean_over(acc, total) == [k \in DOMAIN acc |-> [num |-> acc[k], den |-> total]]

\* line 129: if count < 5
sample_limit == 5

\* line 140
synthesis_target_every_pass(s) == s % config.val_step = 0
synthesis_target(s) == s = config.val_step

\* lines 129-162: the sample rendered for one of the first five sub-batches;
\* the ground-truth audio is logged without step
sample_calls(s) ==
    log("val", Some(s), None, Some(Fig), None, sampling_rate_default,
        tag_of("Validation/{}", None, ""))
    \o log("val", None, None, None, Some(Wav), config.sampling_rate,
           tag_of("Validation/{}", None, "_gt"))
    \o log("val", Some(s), None, None, Some(Wav), config.sampling_rate,
           tag_of("Validation/{}", None, "_synthesized"))

\* lines 60-163: one sub-batch of the validation split
evaluate_batch(r) ==
    /\ pc[r] = "evaluate"
    /\ ev.consumed < datasets.val
    /\ \E out \in LossOutputs, b \in 0..MaxBinLoss :
          LET n == sub_batch_size(config.batch_size,
                                  datasets.val - ev.consumed)
              d == make_loss_dict(out, b)
          IN ev' = [ev EXCEPT
                       !.loss_mean_dict = accumulate(@, d, n),
                       !.consumed = @ + n,
                       !.count = @ + 1,
                       !.sizes = Append(@, n),
                       !.weighted = [k \in LossKeys |-> @[k] + d[k] * n],
                       !.last = Some([base |-> out, bin_loss |-> b,
                                      dict |-> d])]
    /\ passes' = passes \cup {[phase |-> "val", rank |-> r, step |-> step[r],
                               epoch |-> epoch[r], training |-> fs2_model[r].training]}
    /\ IF ev.count < sample_limit
       THEN /\ synth_calls' = synth_calls \cup
                   {[step |-> step[r], count |-> ev.count,
                     synthesis_target |-> synthesis_target(step[r])]}
            /\ emissions' = emissions \cup emitted(sample_calls(step[r]))
            /\ writes' = writes \cup
                   {[rank |-> r, path |-> "SummaryWriter(val)"]}
       ELSE UNCHANGED << synth_calls, emissions, writes >>
    /\ UNCHANGED << config, argv, datasets, files, pc, step, epoch, fs2_model,
                    optimizer, pos, loss_dict, executed, ckpt_reads, logVars,
                    gmVars >>

\* lines 165-184 and 397-401: the means are logged at step, evaluate returns,
\* main appends the message to val/log.txt and calls fs2_model.train()
val_end_no_train(m) == m
val_end_mode(m) == train_mode(m)

evaluate_finish(r) ==
    /\ pc[r] = "evaluate"
    /\ ev.consumed >= datasets.val
    /\ LET means == mean_over(ev.loss_mean_dict, datasets.val)
       IN /\ ev' = [ev EXCEPT !.report = Some(means), !.last = None]
          /\ emissions' = emissions \cup
                emitted(log("val", Some(step[r]), Some(as_optional(means)),
                            None, None, sampling_rate_default, ""))
    /\ writes' = writes \cup {[rank |-> r, path |-> p] :
                                 p \in {"SummaryWriter(val)",
                                        "log_path/val/log.txt"}}
    /\ fs2_model' = [fs2_model EXCEPT ![r] = val_end_mode(@)]
    /\ pc' = [pc EXCEPT ![r] = "save"]
    /\ UNCHANGED << config, argv, datasets, files, step, epoch, optimizer, pos,
                    loss_dict, executed, passes, synth_calls, ckpt_reads,
                    logVars, gmVars >>

(***************************************************************************)
(* train.py: main, the end of a step                                       *)
(***************************************************************************)

\* lines 403-414: every save_step steps the primary process saves a checkpoint
save_step(r) ==
    /\ pc[r] = "save"
    /\ IF step[r] % config.save_step = 0
       THEN /\ files' = write_file(files, format_08d(step[r]),
                           saved_checkpoint(fs2_model[r], optimizer[r][1],
                                            epoch[r]))
            /\ writes' = writes \cup
                   {[rank |-> r, path |-> "ckpt_path/{:08d}.pth.tar"]}
            /\ passes' = passes \cup
                   {[phase |-> "save", rank |-> r, step |-> step[r],
                     epoch |-> epoch[r], training |-> fs2_model[r].training]}
       ELSE UNCHANGED << files, writes, passes >>
    /\ ev' = ev_idle
    /\ loss_dict' = [loss_dict EXCEPT ![r] = None]
    /\ pc' = [pc EXCEPT ![r] = "step_end"]
    /\ UNCHANGED << config, argv, datasets, step, epoch, fs2_model, optimizer,
                    pos, emissions, executed, synth_calls, ckpt_reads, logVars,
                    gmVars >>

\* line 416
reached_total(s, total_step) == s = total_step

\* lines 416-425: quit() at total_step, else the next sub-batch; after the
\* loader's last sub-batch, epoch += 1
step_end(r) ==
    /\ pc[r] = "step_end"
    /\ loss_dict' = [loss_dict EXCEPT ![r] = None]
    /\ IF reached_total(step[r], config.total_step)
       THEN /\ pc' = [pc EXCEPT ![r] = "done"]
            /\ UNCHANGED << step, pos, epoch >>
       ELSE /\ step' = [step EXCEPT ![r] = @ + 1]
            /\ IF pos[r] + 1 >= steps_per_epoch(config.batch_size,
                                    argv.num_gpus, datasets.train)
               THEN /\ epoch' = [epoch EXCEPT ![r] = @ + 1]
                    /\ pos' = [pos EXCEPT ![r] = 0]
                    /\ pc' = [pc EXCEPT ![r] = "epoch"]
               ELSE /\ pos' = [pos EXCEPT ![r] = @ + 1]
                    /\ pc' = [pc EXCEPT ![r] = "batch"]
                    /\ UNCHANGED epoch
    /\ UNCHANGED << config, argv, datasets, files, fs2_model, optimizer, ev,
                    writes, emissions, executed, passes, synth_calls,
                    ckpt_reads, logVars, gmVars >>

(***************************************************************************)
(* The training specification: runs of train.py on one disk                *)
(***************************************************************************)

\* A process before main has assigned its locals.
unbuilt == [state |-> model_state(0), training |-> TRUE]

processes_start(num_gpus) ==
    /\ pc = [r \in Ranks |-> IF r < num_gpus THEN "start" ELSE "absent"]
    /\ step = [r \in Ranks |-> 0]
    /\ epoch = [r \in Ranks |-> 0]
    /\ fs2_model = [r \in Ranks |-> unbuilt]
    /\ optimizer = [r \in Ranks |-> None]
    /\ pos = [r \in Ranks |-> 0]
    /\ loss_dict = [r \in Ranks |-> None]
    /\ executed = [r \in Ranks |-> << >>]
    /\ ckpt_reads = [r \in Ranks |-> 0]
    /\ ev = ev_idle
    /\ passes = {}
    /\ synth_calls = {}

harness_idle ==
    /\ logCall = None
    /\ logOut = None
    /\ gmCall = None
    /\ gmOut = None

\* Epochs a checkpoint found on disk may carry.
PriorEpochs == {0, 2}

\* The disk at the first run: empty, or holding a checkpoint for restore_step
\* in the layout the factory restores from.
initial_disks(restore_step) ==
    {<< >>} \cup
    (IF restore_step = 0 THEN {}
     ELSE {write_file(<< >>, format_plain(restore_step),
                      restore_layout(model_state(restore_step), restore_step,
                                     e)) : e \in PriorEpochs})

\* config["preprocess"]["audio"]["sampling_rate"]
SamplingRates == {24000}

\* log_step and synth_step, as configured together.
ReportPeriods ==
    { [log_step |-> 1, synth_step |-> 2], [log_step |-> 2, synth_step |-> 1] }

configs(total_steps, val_steps, save_steps) ==
    { [total_step |-> t, log_step |-> p.log_step, synth_step |-> p.synth_step,
       val_step |-> v, save_step |-> sv, batch_size |-> bs,
       sampling_rate |-> sr] :
         t \in total_steps, p \in ReportPeriods, v \in val_steps,
         sv \in save_steps, bs \in 1..MaxBatchSize, sr \in SamplingRates }

\* A validation split with more sub-batches than evaluate samples.
LongValLen == sample_limit + 1

\* A single-device run, main(0, restore_step, speaker_num, config, 1): a fresh
\* one on an empty disk, over every validation split; one given a
\* restore_step, with or without a checkpoint to restore from; or a fresh one
\* validated at every step on a long validation split.
Init ==
    /\ \/ /\ config \in configs(1..MaxTotalStep, StepPeriods, StepPeriods)
          /\ argv \in [restore_step : {0}, num_gpus : {1}, run : {1}]
          /\ datasets \in [train : {MaxTrainLen}, val : 1..MaxValLen]
       \/ /\ config \in configs(1..MaxTotalStep, StepPeriods, StepPeriods)
          /\ argv \in [restore_step : 1..MaxRestoreStep, num_gpus : {1},
                       run : {1}]
          /\ datasets \in [train : {MaxTrainLen}, val : {1}]
       \/ /\ config \in configs(2..MaxTotalStep, {1}, {2})
          /\ argv \in [restore_step : {0}, num_gpus : {1}, run : {1}]
          /\ datasets \in [train : {MaxTrainLen}, val : {LongValLen}]
    /\ files \in initial_disks(argv.restore_step)
    /\ processes_start(argv.num_gpus)
    /\ writes = {}
    /\ emissions = {}
    /\ harness_idle

\* Fresh runs on one device or on several (mp.spawn starts one main per rank).
InitDist ==
    /\ config \in configs(1..MaxTotalStep, {2}, {1})
    /\ argv \in [restore_step : {0}, num_gpus : DeviceCounts, run : {1}]
    /\ datasets \in [train : 1..MaxTrainLen, val : {1}]
    /\ files = << >>
    /\ processes_start(argv.num_gpus)
    /\ writes = {}
    /\ emissions = {}
    /\ harness_idle

saved_steps == {s \in 1..StepCap : format_08d(s) \in DOMAIN files}

\* Every process of the run has ended; train.py is started again with
\* --restore_step S for a step S the earlier run saved.
restart ==
    /\ \A r \in Active : pc[r] \in CrashPcs \cup {"done"}
    /\ argv.run < MaxRuns
    /\ \E S \in saved_steps :
          argv' = [argv EXCEPT !.restore_step = S, !.run = @ + 1]
    /\ pc' = [r \in Ranks |-> IF r < argv.num_gpus THEN "start" ELSE "absent"]
    /\ step' = [r \in Ranks |-> 0]
    /\ epoch' = [r \in Ranks |-> 0]
    /\ fs2_model' = [r \in Ranks |-> unbuilt]
    /\ optimizer' = [r \in Ranks |-> None]
    /\ pos' = [r \in Ranks |-> 0]
    /\ loss_dict' = [r \in Ranks |-> None]
    /\ executed' = [r \in Ranks |-> << >>]
    /\ ckpt_reads' = [r \in Ranks |-> 0]
    /\ ev' = ev_idle
    /\ passes' = {}
    /\ synth_calls' = {}
    /\ UNCHANGED << config, datasets, files, writes, emissions, logVars,
                    gmVars >>

Next ==
    \/ \E r \in Active : main_prepare(r)
    \/ \E r \in Active : main_get_model(r)
    \/ \E r \in Active : main_init_logger(r)
    \/ \E r \in Active : epoch_loop(r)
    \/ \E r \in Active : train_step(r)
    \/ \E r \in Active : val_begin(r)
    \/ \E r \in Active : evaluate_batch(r)
    \/ \E r \in Active : evaluate_finish(r)
    \/ \E r \in Active : save_step(r)
    \/ \E r \in Active : step_end(r)
    \/ restart

Spec == Init /\ [][Next]_vars

SpecDist == InitDist /\ [][Next]_vars

(***************************************************************************)
(* log called on its own, with every subset of its optional arguments      *)
(***************************************************************************)

\* No training process runs.
main_idle ==
    /\ config = [total_step |-> 1, log_step |-> 1, synth_step |-> 1,
                 val_step |-> 1, save_step |-> 1, batch_size |-> 1,
                 sampling_rate |-> 24000]
    /\ argv = [restore_step |-> 0, num_gpus |-> 0, run |-> 1]
    /\ datasets = [train |-> 1, val |-> 1]
    /\ processes_start(0)
    /\ writes = {}
    /\ emissions = {}

LogKeys == {"total_loss", "mel_loss", "generator_loss"}

LogLossDicts ==
    {None, Some(<< >>)}
    \cup {Some(d) : d \in [LogKeys -> {None, Some(1), Some(2)}]}

LogCalls ==
    [logger : {"train"}, step : {None, Some(0), Some(3)},
     loss_dict : LogLossDicts, fig : {None, Some(Fig)},
     audio : {None, Some(Wav), Some(<< 0, 3 >>)},
     sampling_rate : {sampling_rate_default} \cup SamplingRates,
     tag : {"", "Validation/utt"}]

InitLog ==
    /\ main_idle
    /\ files = << >>
    /\ logCall \in {Some(c) : c \in LogCalls}
    /\ logOut = None
    /\ gmCall = None
    /\ gmOut = None

log_call ==
    /\ logCall # None
    /\ logOut = None
    /\ LET c == logCall[1]
       IN logOut' = Some(log(c.logger, c.step, c.loss_dict, c.fig, c.audio,
                             c.sampling_rate, c.tag))
    /\ UNCHANGED << mainVars, logCall, gmVars >>

NextLog == log_call

SpecLog == InitLog /\ [][NextLog]_vars

(***************************************************************************)
(* get_model of utils/model.py called on its own                           *)
(***************************************************************************)

\* A unified six-model checkpoint (the keys get_model reads).
joint_checkpoint(st, ep, n) ==
    [variance_model |-> st, embedder_model |-> st, decoder_model |-> st,
     generator_model |-> st, mpd_model |-> st, msd_model |-> st,
     optimizer |-> st, epoch |-> ep, step |-> n]

GmDisks ==
    {<< >>}
    \cup {write_file(<< >>, << 1 >>, joint_checkpoint(st, ep, n)) :
             st \in {1, 2}, ep \in {0, 3}, n \in {5, 7}}
    \cup {write_file(<< >>, << 1 >>,
                     saved_checkpoint([state |-> model_state(1)],
                                      [state |-> 1], 1))}

GmCalls ==
    [checkpoint_path : {None, Some(<< 1 >>), Some(<< 2 >>)},
     vocoder_type : {"fregan", "hifigan", "melgan"}, train : BOOLEAN]

InitGetModel ==
    /\ main_idle
    /\ files \in GmDisks
    /\ gmCall \in {Some(c) : c \in GmCalls}
    /\ gmOut = None
    /\ logCall = None
    /\ logOut = None

get_model_call ==
    /\ gmCall # None
    /\ gmOut = None
    /\ LET c == gmCall[1]
       IN gmOut' = Some(get_model(c.checkpoint_path, c.vocoder_type, files,
                                  c.train))
    /\ UNCHANGED << mainVars, logVars, gmCall >>

NextGetModel == get_model_call

SpecGetModel == InitGetModel /\ [][NextGetModel]_vars

(***************************************************************************)
(* Properties                                                              *)
(***************************************************************************)

\* Has main returned from (or failed in) its get_model call?
past_get_model(r) == pc[r] \in LoopPcs \cup {"init_logger", "FileNotFoundError", "KeyError"}

\* C1: a run restarted with restore_step = S, S a step an earlier run saved,
\* restores from what that save wrote: get_model finds the file and every key
\* it reads, the restored sub-model state is the state saved, and training
\* resumes at step S + 1.
C1_RoundTrip ==
    \A r \in Active :
        (argv.run > 1 /\ past_get_model(r)) =>
            /\ pc[r] \notin {"FileNotFoundError", "KeyError"}
            /\ fs2_model[r].state = files[format_08d(argv.restore_step)].model
                  \/ executed[r] # << >>
            /\ executed[r] # << >> => executed[r][1] = argv.restore_step + 1

\* C2: main trains steps restore_step + 1, restore_step + 2, ... once each in
\* increasing order, never a step above total_step, and quits only right
\* after step total_step.
C2_StepsUpToTotal ==
    \A r \in Active :
        /\ \A i \in 1..Len(executed[r]) :
              /\ executed[r][i] = argv.restore_step + i
              /\ executed[r][i] <= config.total_step
        /\ pc[r] = "done" =>
              /\ executed[r] # << >>
              /\ executed[r][Len(executed[r])] = config.total_step

\* C3: only the primary process (rank 0) creates or writes checkpoint files,
\* log directories, log.txt files and logging sessions, so no output path is
\* written by two processes.
C3_OnlyPrimaryWrites ==
    /\ \A w \in writes : w.rank = 0
    /\ \A v, w \in writes : v.path = w.path => v.rank = w.rank

returned_modules(ret) ==
    {ret[i][1] : i \in {j \in 1..6 : j <= Len(ret) /\ ret[j] # None}}

\* C5: with train = False, get_model returns the variance predictor, the
\* embedder, the decoder and the vocoder generator, all four in evaluation
\* mode and the generator without weight norm, with epoch and step (-1 and 0
\* without a checkpoint, the checkpoint's values with one), and neither
\* discriminator nor an optimizer.
C5_InferenceReturn ==
    (gmOut # None /\ gmOut[1].status = "ok" /\ ~gmCall[1].train) =>
        LET ret == gmOut[1].ret
            n == Len(ret)
            ms == returned_modules(ret)
        IN /\ {m.name : m \in ms} =
                 {"variance_model", "embedder_model", "decoder_model",
                  "generator_model"}
           /\ \A m \in ms : ~m.training /\ ~m.weight_norm
           /\ IF gmCall[1].checkpoint_path = None
              THEN ret[n - 1] = -1 /\ ret[n] = 0
              ELSE /\ ret[n - 1] = files[gmCall[1].checkpoint_path[1]].epoch
                   /\ ret[n] = files[gmCall[1].checkpoint_path[1]].step

RECURSIVE sum_sizes(_)
sum_sizes(ns) == IF ns = << >> THEN 0 ELSE ns[1] + sum_sizes(Tail(ns))

\* C6: when evaluate reports, the sub-batch sizes n_i add up to the N
\* utterances of the validation split, none empty, and each of the six
\* reported means is sum(l_i * n_i) / N.
C6_WeightedMean ==
    ev.report # None =>
        /\ sum_sizes(ev.sizes) = datasets.val
        /\ \A i \in 1..Len(ev.sizes) : ev.sizes[i] >= 1
        /\ DOMAIN ev.report[1] = LossKeys
        /\ \A k \in LossKeys :
              /\ ev.report[1][k].num = ev.weighted[k]
              /\ ev.report[1][k].den = datasets.val

\* evaluate reports on a split delivered as a full sub-batch of two followed
\* by the remaining single utterance.
C6_Witness ==
    /\ ev.report # None
    /\ ev.sizes = << 2, 1 >>
    /\ ev.weighted.alignment_loss > 0

\* C7: main fails its assertion whenever batch_size * group_size >=
\* len(dataset), group_size being 4 on one device and 1 on several, before it
\* has built a model or an optimizer, read or written a checkpoint or created
\* a log directory; with a strictly smaller product it does not fail it.
C7_SizeGuard ==
    \A r \in Active :
        LET gs == IF argv.num_gpus = 1 THEN 4 ELSE 1
            too_small == config.batch_size * gs >= datasets.train
        IN /\ (too_small /\ pc[r] # "start") => pc[r] = "AssertionError"
           /\ ~too_small => pc[r] # "AssertionError"
           /\ pc[r] = "AssertionError" =>
                 /\ fs2_model[r] = unbuilt
                 /\ optimizer[r] = None
                 /\ ckpt_reads[r] = 0
                 /\ executed[r] = << >>
                 /\ \A w \in writes : w.rank # r

\* A multi-device run aborts with batch_size * 1 equal to len(dataset).
C7_Witness ==
    \E r \in Active :
        /\ pc[r] = "AssertionError"
        /\ argv.num_gpus > 1
        /\ config.batch_size = datasets.train

\* The loss_dict of one sub-batch against Loss's output and bin_loss.
scaled_once(l) ==
    /\ l.dict.alignment_loss = l.base.alignment_loss + 2 * l.bin_loss
    /\ l.dict.total_loss = l.base.total_loss + 2 * l.bin_loss
    /\ \A k \in {"mel_loss", "postnet_mel_loss", "duration_loss", "pitch_loss"} :
          l.dict[k] = l.base[k]

\* C8: for every sub-batch of the training loop and of evaluate, the reported
\* alignment_loss is base_align + 2 * bin_loss, the reported total_loss (in
\* training also the loss back-propagated) is base_total + 2 * bin_loss, and
\* the mel, postnet-mel, duration and pitch losses are reported unchanged.
C8_BinScaling ==
    /\ \A r \in Active :
          loss_dict[r] # None =>
              /\ scaled_once(loss_dict[r][1])
              /\ loss_dict[r][1].backward =
                    loss_dict[r][1].base.total_loss + 2 * loss_dict[r][1].bin_loss
    /\ ev.last # None => scaled_once(ev.last[1])

\* A validation sub-batch with a nonzero bin_loss, after a training step.
C8_Witness ==
    /\ ev.last # None
    /\ ev.last[1].bin_loss > 0
    /\ executed[0] # << >>

\* What log received for one kind of call.
calls_of(out, kind) == {i \in 1..Len(out) : out[i].call = kind}

\* C9: one log call makes exactly one SummaryWriter call per supplied item
\* and none for an item not supplied: add_scalars for group "Loss" with
\* exactly the mapping's entries whose value is present, add_figure and
\* add_audio under the given tag, every one of them at the given step.
C9_LogEmissions ==
    logOut # None =>
        LET c == logCall[1]
            out == logOut[1]
            n(x) == IF x # None THEN 1 ELSE 0
        IN /\ Len(out) = n(c.loss_dict) + n(c.fig) + n(c.audio)
           /\ Cardinality(calls_of(out, "add_scalars")) = n(c.loss_dict)
           /\ Cardinality(calls_of(out, "add_figure")) = n(c.fig)
           /\ Cardinality(calls_of(out, "add_audio")) = n(c.audio)
           /\ \A i \in 1..Len(out) : out[i].step = c.step
           /\ \A i \in calls_of(out, "add_scalars") :
                 /\ out[i].main_tag = "Loss"
                 /\ DOMAIN out[i].payload =
                       {k \in DOMAIN c.loss_dict[1] : c.loss_dict[1][k] # None}
                 /\ \A k \in DOMAIN out[i].payload :
                       Some(out[i].payload[k]) = c.loss_dict[1][k]
           /\ \A i \in calls_of(out, "add_figure") \cup calls_of(out, "add_audio") :
                 out[i].main_tag = c.tag

\* log was given all three items, the mapping with an absent entry.
C9_Witness ==
    /\ logOut # None
    /\ Len(logOut[1]) = 3
    /\ logCall[1].loss_dict # None
    /\ \E k \in DOMAIN logCall[1].loss_dict[1] : logCall[1].loss_dict[1][k] = None
    /\ \E k \in DOMAIN logCall[1].loss_dict[1] : logCall[1].loss_dict[1][k] # None

\* C10: on the primary process every training forward/backward pass runs in
\* training mode and every validation forward pass in evaluation mode; the
\* model is in evaluation mode throughout evaluate and back in training mode
\* from evaluate's return on, at the step's checkpoint save and at the next
\* training step.
C10_Modes ==
    /\ \A p \in passes :
          p.rank = 0 =>
              /\ p.phase = "train" => p.training
              /\ p.phase = "val" => ~p.training
              /\ p.phase = "save" => p.training
    /\ pc[0] = "evaluate" => ~fs2_model[0].training
    /\ pc[0] \in {"epoch", "batch", "val", "save", "step_end"} =>
          fs2_model[0].training

\* Training went on after a validation pass.
C10_Witness ==
    \E p, q \in passes :
        /\ p.rank = 0 /\ q.rank = 0
        /\ p.phase = "val" /\ q.phase = "train"
        /\ q.step > p.step

\* The synth_one_sample calls evaluate made in the validation pass at step s.
calls_in_pass(s) == {c \in synth_calls : c.step = s}

min(a, b) == IF a < b THEN a ELSE b

\* C11: in a run, evaluate passes synthesis_target = TRUE to synth_one_sample
\* exactly in the calls of the validation pass at step = val_step and FALSE
\* in the calls of every later pass, so at most one pass renders the target;
\* a pass makes one call for each of its first five sub-batches and none
\* after, min(5, number of sub-batches) calls in all.
C11_SynthesisTarget ==
    /\ \A c \in synth_calls :
          /\ c.synthesis_target <=> (c.step = config.val_step)
          /\ c.step > config.val_step => ~c.synthesis_target
          /\ c.count < 5
    /\ Cardinality({c.step : c \in {d \in synth_calls : d.synthesis_target}}) <= 1
    /\ pc[0] = "evaluate" =>
          /\ Cardinality(calls_in_pass(step[0])) = min(5, Len(ev.sizes))
          /\ {c.count : c \in calls_in_pass(step[0])} =
                 0 .. (min(5, Len(ev.sizes)) - 1)
    /\ \A p \in passes :
          (p.phase = "val" /\ (pc[0] # "evaluate" \/ p.step # step[0])) =>
              Cardinality(calls_in_pass(p.step)) =
                 min(5, (datasets.val + config.batch_size - 1)
                           \div config.batch_size)

\* A later validation pass, over six sub-batches, has made its five calls
\* with the flag off after the pass at val_step made its own with the flag on.
C11_Witness ==
    /\ pc[0] = "evaluate"
    /\ step[0] > config.val_step
    /\ Len(ev.sizes) = 6
    /\ Cardinality(calls_in_pass(step[0])) = 5
    /\ \A c \in calls_in_pass(step[0]) : ~c.synthesis_target
    /\ Cardinality({c \in calls_in_pass(config.val_step) : c.synthesis_target}) = 5

\* C12: every call the validation SummaryWriter receives during the
\* validation pass at step s (the mean losses and, for each sampled
\* sub-batch, the figure, the ground-truth audio and the synthesized audio)
\* is recorded at step s, none without a step.
C12_ValidationSteps ==
    [][\A e \in emissions' \ emissions :
          e.logger = "val" => e.step = Some(step[0])]_vars

====
